---- MODULE Spec2Model ----
(***************************************************************************)
(* Arc'teryx stock monitor (byuriel/arc-new).                              *)
(*                                                                         *)
(* The repository holds several revisions of one Node.js program.  Each    *)
(* revision is modelled as a state machine of its own:                     *)
(*   Spec        src/index.js lines 1-540   ("COMPREHENSIVE FIX")          *)
(*   SpecTracked src/unnamed/part_000       (tracked colours, test main)   *)
(*   SpecFinal   src/index.js lines 542-833 ("FINAL FIXED VERSION")        *)
(* SpecFunctions applies the parsing and classifying functions of          *)
(* src/index.js and src/unnamed/part_001 to every argument of a bounded    *)
(* set, one application in a behaviour.                                    *)
(* JavaScript runs one callback at a time, so an action is the code that   *)
(* runs between two awaits: it starts when a timer, a message or an I/O    *)
(* completion is delivered and ends at the next await or at the return.    *)
(***************************************************************************)
EXTENDS Integers, Sequences, FiniteSets, TLC

\* ------------------------------------------------------------------ bounds
\* checkStock invocations per behaviour (the guard of every trigger)
MaxChecks == 3
\* colour options in one product page
MaxVariants == 1
\* distinct variant identifiers the upstream may use
NumVariantIds == 2

\* --------------------------------------------------------------- constants
\* index.js:436  if (checkCount % 12 === 0)
SnapshotEvery == 12

VariantIds == 1..NumVariantIds
Cycles == 1..MaxChecks

\* A JavaScript value that is tested with === true / === false / === null.
Tri == {"true", "false", "null"}

VARIABLES
  \* ---- src/index.js, first program
  webhookConfigured,  \* CONFIG.DISCORD_WEBHOOK_URL is set and not the placeholder
  commandsEnabled,    \* CONFIG.DISCORD_BOT_TOKEN && CONFIG.ENABLE_COMMANDS
  previousStock,      \* let previousStock
  checkCount,         \* let checkCount
  allKnownColors,     \* the keys of the Map allKnownColors
  monitorStats,       \* let monitorStats (startTime left out)
  mainPc,             \* where main() is
  proc,               \* the process: running, stopping (signal handler awaits), exited
  cyc,                \* the invocations of checkStock, by number
  \* ---- history variables (not program state)
  lastDiff,           \* the operands and the result of the latest restock detection
  alertCount,         \* per variant: restock alerts that named it
  transCount,         \* per variant: committed Unavailable -> Available transitions
  eventState,         \* per variant: where it stands since its latest restock event
  \* ---- src/unnamed/part_000
  previousStockStatus,  \* let previousStockStatus (a Map: colorId -> stockStatus)
  tCheckCount,          \* let checkCount
  tPc,                  \* where main() and its checkStock are
  tLocals,              \* currentStockStatus and newlyInStock of the running checkStock
  \* ---- history variables (not program state)
  tHist,                \* what the cycles of part_000 did
  \* ---- src/index.js, second program (lines 542-833)
  fPreviousStock,       \* let previousStock
  fCheckCount,          \* let checkCount
  fMonitorStats,        \* let monitorStats (startTime left out)
  fMainPc,              \* where main() is
  fProc,                \* the process: running, stopping, exited
  fCyc,                 \* the invocations of checkStock, by number
  \* ---- the functions that are checked on their own
  app,                  \* the application: function, argument, result
  \* ---- src/unnamed/part_001
  gPreviousStock,       \* let previousStock
  gCheckCount,          \* let checkCount
  gMonitorStats,        \* let monitorStats (startTime left out)
  gMainPc,              \* where main() is
  gProc,                \* the process: running, stopping, exited
  gPending,             \* the invocations of checkStock that await their error alert
  \* ---- history variables (not program state)
  gHist                 \* what the cycles of part_001 did

tvars == <<previousStockStatus, tCheckCount, tPc, tLocals, tHist>>

\* The variables that neither the first program of src/index.js nor
\* src/unnamed/part_000 reads or writes.
fvars == <<fPreviousStock, fCheckCount, fMonitorStats, fMainPc, fProc, fCyc>>

\* The variables of src/unnamed/part_001.
gvars == <<gPreviousStock, gCheckCount, gMonitorStats, gMainPc, gProc, gPending, gHist>>

xvars == <<app, fvars, gvars>>

vars == <<webhookConfigured, commandsEnabled, previousStock, checkCount,
          allKnownColors, monitorStats, mainPc, proc, cyc,
          lastDiff, alertCount, transCount, eventState, tvars, xvars>>

\* index.js:27  { inStock: [], outOfStock: [] }
EmptyStock == [inStock |-> <<>>, outOfStock |-> <<>>]

\* index.js:256-263  the variant object built from one colour option; label and
\* colour metadata are passed through unexamined and left out.
Variant == [variantId : VariantIds, available : Tri]

\* What fetchAndParseProduct returns on success: a non-empty variants list
\* (index.js:248-251 throws on an empty one).
Payloads == UNION {[1..n -> Variant] : n \in 1..MaxVariants}

\* index.js:403-409  the variant pushed to a partition.  isAvailable is a history
\* annotation: the value the local isAvailable had when the variant was pushed.
Entry(v, r) == [variantId |-> v.variantId, available |-> v.available, isAvailable |-> r]

\* index.js:403-409
Push(cur, v, r) ==
  IF r = "true"
  THEN [cur EXCEPT !.inStock = Append(@, Entry(v, r))]
  ELSE [cur EXCEPT !.outOfStock = Append(@, Entry(v, r))]

\* index.js:391-410  the for loop from variant i up to its next await: a variant
\* whose available is null is probed (line 398), every other one is pushed at once.
RECURSIVE RunLoop(_, _, _)
RunLoop(variants, i, cur) ==
  IF i > Len(variants) THEN [i |-> i, currentStock |-> cur]
  ELSE IF variants[i].available = "null" THEN [i |-> i, currentStock |-> cur]
  ELSE RunLoop(variants, i + 1, Push(cur, variants[i], variants[i].available))

\* index.js:422  (skip on first run)
HasPrevious(prev) == Len(prev.outOfStock) > 0 \/ Len(prev.inStock) > 0

\* The detection listing the events in the order of the previous snapshot.
NewlyAvailableByPrevious(prev, cur) ==
  SelectSeq(prev.outOfStock,
            LAMBDA old : \E k \in 1..Len(cur.inStock) :
                            cur.inStock[k].variantId = old.variantId)

\* index.js:423-425
NewlyAvailable(prev, cur) ==
  SelectSeq(cur.inStock,
            LAMBDA color : \E k \in 1..Len(prev.outOfStock) :
                              prev.outOfStock[k].variantId = color.variantId)

\* index.js:421-426
DetectRestocks(prev, cur) ==
  IF HasPrevious(prev) THEN NewlyAvailable(prev, cur) ELSE <<>>

\* index.js:58-62  sendDiscordNotification returns before any await when the
\* webhook is not configured; otherwise it awaits axios.post.
Posts == webhookConfigured

\* index.js:435-441  where checkStock waits next once the restock alert is over
NextAfterAlert(count) ==
  IF count % SnapshotEvery = 0 /\ Posts THEN "snapshot" ELSE "done"

\* index.js:427-441  where checkStock waits next once the detection is over
NextAfterDiff(newly, count) ==
  IF Len(newly) > 0 /\ Posts THEN "alert" ELSE NextAfterAlert(count)

\* index.js:446-450, 117-125  where checkStock waits next in its catch block
NextAfterError == IF Posts THEN "error" ELSE "done"

\* A checkStock invocation that has not started.
IdleCycle ==
  [pc |-> "idle", variants |-> <<>>, i |-> 0, isAvailable |-> "null",
   currentStock |-> EmptyStock, newlyAvailable |-> <<>>,
   \* history annotations
   prevAtStart |-> EmptyStock, interfered |-> FALSE, outcome |-> "none",
   kept |-> TRUE, undelivered |-> {}, repeated |-> {}, reported |-> FALSE]

InFlight(rec) == rec.pc \notin {"idle", "done"}

\* The invocation once it has returned: its locals are gone.
Finished(rec, how) ==
  [IdleCycle EXCEPT !.pc = "done", !.outcome = how,
                    !.interfered = rec.interfered,
                    !.undelivered = rec.undelivered,
                    !.repeated = rec.repeated,
                    !.reported = rec.reported,
                    !.kept = (how = "aborted") => (previousStock = rec.prevAtStart)]

\* The resolved availability of variant v in a snapshot (history annotation).
AvailableIn(snap, v) ==
  \E k \in 1..Len(snap.inStock) : snap.inStock[k].variantId = v
UnavailableIn(snap, v) ==
  \E k \in 1..Len(snap.outOfStock) :
     snap.outOfStock[k].variantId = v /\ snap.outOfStock[k].isAvailable = "false"
UnknownIn(snap, v) ==
  \E k \in 1..Len(snap.outOfStock) :
     snap.outOfStock[k].variantId = v /\ snap.outOfStock[k].isAvailable = "null"
Names(seq, v) == \E k \in 1..Len(seq) : seq[k].variantId = v

\* Mutant of Commits: the snapshot is stored whenever the cycle stops running,
\* also while its loop or its alert is still waiting.
CommitsEarly(pcNext, failed) == ~failed

\* index.js:441  previousStock = currentStock is reached only when the try block
\* runs to its end: no await is pending and nothing was thrown.
Commits(pcNext, failed) == pcNext = "done" /\ ~failed

\* The end of one run of checkStock code: invocation c, with locals rec, either
\* waits at pcNext or returns.
\* History annotation, per variant:
\*   none       no restock event named it yet
\*   emitted    a detection named it and that invocation has not committed yet
\*   committed  the invocation that named it has committed, and no snapshot
\*              committed since holds it Unavailable
\*   rearmed    a snapshot committed since holds it Unavailable
\*   repeated   a further detection named it while it was "committed"
AfterEvent(state, named) ==
  IF ~named THEN state
  ELSE IF state \in {"committed", "repeated"} THEN "repeated"
  ELSE "emitted"

AfterCommit(state, named, unavailable) ==
  IF state = "emitted" /\ named THEN "committed"
  ELSE IF state = "committed" /\ unavailable THEN "rearmed"
  ELSE state

Land(c, rec, pcNext, failed) ==
  LET committing == Commits(pcNext, failed) IN
  /\ previousStock' = IF committing THEN rec.currentStock ELSE previousStock
  /\ transCount' =
       [v \in VariantIds |->
          IF committing /\ UnavailableIn(previousStock, v) /\ AvailableIn(rec.currentStock, v)
          THEN transCount[v] + 1 ELSE transCount[v]]
  /\ eventState' =
       [v \in VariantIds |->
          LET named == Names(rec.newlyAvailable, v)
              emitted == AfterEvent(eventState[v],
                                    rec.newlyAvailable # cyc[c].newlyAvailable /\ named)
          IN IF committing THEN AfterCommit(emitted, named, UnavailableIn(rec.currentStock, v))
             ELSE emitted]
  /\ cyc' = [d \in Cycles |->
       IF d = c
       THEN IF pcNext = "done"
            THEN Finished(rec, IF failed THEN "aborted" ELSE "committed")
            ELSE [rec EXCEPT !.pc = pcNext]
       ELSE IF committing /\ InFlight(cyc[d])
            THEN [cyc[d] EXCEPT !.interfered = TRUE]
            ELSE cyc[d]]
  \* index.js:516-519  main awaits the initial check, then starts the interval
  /\ mainPc' = IF pcNext = "done" /\ c = 1 /\ mainPc = "initial" THEN "polling" ELSE mainPc

\* History annotation: the invocations whose restock alert is out and whose
\* snapshot is not yet committed, and that named a variant that newly names too.
Repeats(c, newly) ==
  {d \in Cycles \ {c} :
     /\ cyc[d].pc \in {"alert", "snapshot"}
     /\ \E v \in VariantIds : Names(cyc[d].newlyAvailable, v) /\ Names(newly, v)}

\* index.js:421-433  the detection, run when the loop has ended
Detect(c, rec) ==
  LET newly == DetectRestocks(previousStock, rec.currentStock) IN
  /\ monitorStats' = [monitorStats EXCEPT !.totalRestocks = @ + Len(newly)]
  /\ alertCount' = [v \in VariantIds |->
                      IF Posts /\ Names(newly, v) THEN alertCount[v] + 1 ELSE alertCount[v]]
  /\ lastDiff' = [by |-> c, variants |-> rec.variants, previous |-> previousStock,
                  current |-> rec.currentStock, newly |-> newly]
  /\ Land(c, [rec EXCEPT !.newlyAvailable = newly, !.repeated = Repeats(c, newly)],
          NextAfterDiff(newly, checkCount), FALSE)

\* index.js:391-433  the loop from variant i on, and what follows it
Resume(c, rec, i, cur) ==
  LET r == RunLoop(rec.variants, i, cur)
      rec2 == [rec EXCEPT !.i = r.i, !.currentStock = r.currentStock] IN
  IF r.i <= Len(rec.variants)
  THEN /\ Land(c, rec2, "probe", FALSE)
       /\ UNCHANGED <<monitorStats, alertCount, lastDiff>>
  ELSE Detect(c, rec2)

\* index.js:368-378  checkStock up to the await of fetchAndParseProduct
StartCheckIn(slot, limit) ==
  /\ checkCount < limit
  /\ checkCount' = checkCount + 1
  /\ monitorStats' = [monitorStats EXCEPT !.totalChecks = @ + 1]
  /\ cyc' = [cyc EXCEPT ![slot] =
               [IdleCycle EXCEPT !.pc = "fetch", !.prevAtStart = previousStock]]
  /\ UNCHANGED <<webhookConfigured, commandsEnabled, previousStock, allKnownColors,
                 proc, lastDiff, alertCount, transCount, eventState>>
  /\ UNCHANGED <<tvars, xvars>>

\* The invocations are numbered in the order of their start.
StartCheck == StartCheckIn(checkCount + 1, MaxChecks)

\* index.js:512-516  main: setupDiscordBot, then the initial check
MainInitialCheck ==
  /\ proc # "exited"
  /\ mainPc = "start"
  /\ mainPc' = "initial"
  /\ StartCheck

\* index.js:519  setInterval(checkStock, ...): the timer fires
IntervalTrigger ==
  /\ proc # "exited"
  /\ mainPc = "polling"
  /\ UNCHANGED mainPc
  /\ StartCheck

\* index.js:483-485  the !check command.  The handler awaits a 'Manual Check'
\* notification first, which only defers the call of checkStock.
ManualCheck ==
  /\ proc # "exited"
  /\ commandsEnabled
  /\ mainPc # "start"
  /\ UNCHANGED mainPc
  /\ StartCheck

\* index.js:378 -> 446-450  fetchAndParseProduct throws: the request failed
\* (stage "fetch") or no product or colour option was found (stage "extract")
FetchFails(c) ==
  /\ proc # "exited"
  /\ cyc[c].pc = "fetch"
  /\ monitorStats' = [monitorStats EXCEPT !.errors = @ + 1]
  /\ Land(c, [cyc[c] EXCEPT !.reported = Posts], NextAfterError, TRUE)
  /\ UNCHANGED <<webhookConfigured, commandsEnabled, checkCount, allKnownColors,
                 proc, lastDiff, alertCount>>
  /\ UNCHANGED <<tvars, xvars>>

\* index.js:378-433  fetchAndParseProduct returns productData
FetchReturns(c, variants) ==
  /\ proc # "exited"
  /\ cyc[c].pc = "fetch"
  /\ allKnownColors' = allKnownColors \cup {variants[k].variantId : k \in 1..Len(variants)}
  /\ Resume(c, [cyc[c] EXCEPT !.variants = variants], 1, EmptyStock)
  /\ UNCHANGED <<webhookConfigured, commandsEnabled, checkCount, proc>>
  /\ UNCHANGED <<tvars, xvars>>

\* index.js:398-400  checkVariantStock returns r (null when it failed or could
\* not tell); the pacing delay starts
ProbeReturns(c, r) ==
  /\ proc # "exited"
  /\ cyc[c].pc = "probe"
  /\ cyc' = [cyc EXCEPT ![c].pc = "delay", ![c].isAvailable = r]
  /\ UNCHANGED <<webhookConfigured, commandsEnabled, previousStock, checkCount,
                 allKnownColors, monitorStats, mainPc, proc,
                 lastDiff, alertCount, transCount, eventState>>
  /\ UNCHANGED <<tvars, xvars>>

\* index.js:400-433  the delay is over: push the variant, go on with the loop
DelayElapsed(c) ==
  /\ proc # "exited"
  /\ cyc[c].pc = "delay"
  /\ Resume(c, cyc[c], cyc[c].i + 1,
            Push(cyc[c].currentStock, cyc[c].variants[cyc[c].i], cyc[c].isAvailable))
  /\ UNCHANGED <<webhookConfigured, commandsEnabled, checkCount, allKnownColors, proc>>
  /\ UNCHANGED <<tvars, xvars>>

\* index.js:73-77  axios.post of a notification resolves (ok) or rejects; the
\* rejection is logged and checkStock goes on
NotifyReturns(c, ok) ==
  /\ proc # "exited"
  /\ cyc[c].pc \in {"alert", "snapshot", "error"}
  /\ LET rec == [cyc[c] EXCEPT !.undelivered =
                    IF ok THEN @ ELSE @ \cup {cyc[c].pc}] IN
     CASE cyc[c].pc = "alert"    -> Land(c, rec, NextAfterAlert(checkCount), FALSE)
       [] cyc[c].pc = "snapshot" -> Land(c, rec, "done", FALSE)
       [] cyc[c].pc = "error"    -> Land(c, rec, "done", TRUE)
  /\ UNCHANGED <<webhookConfigured, commandsEnabled, checkCount, allKnownColors,
                 monitorStats, proc, lastDiff, alertCount>>
  /\ UNCHANGED <<tvars, xvars>>

\* index.js:525-535  SIGTERM / SIGINT: the handler sends 'Monitor Stopped'
Signal ==
  /\ proc = "running"
  /\ proc' = IF Posts THEN "stopping" ELSE "exited"
  /\ UNCHANGED <<webhookConfigured, commandsEnabled, previousStock, checkCount,
                 allKnownColors, monitorStats, mainPc, cyc,
                 lastDiff, alertCount, transCount, eventState>>
  /\ UNCHANGED <<tvars, xvars>>

\* index.js:527-528, 533-534  the notification is over: process.exit(0)
ShutdownExit ==
  /\ proc = "stopping"
  /\ proc' = "exited"
  /\ UNCHANGED <<webhookConfigured, commandsEnabled, previousStock, checkCount,
                 allKnownColors, monitorStats, mainPc, cyc,
                 lastDiff, alertCount, transCount, eventState>>
  /\ UNCHANGED <<tvars, xvars>>

\* ======================================================================
\* src/unnamed/part_000: the monitor of the tracked colours.  Its main() runs
\* the check twice with a simulated restock in between, then exits
\* (lines 150-170; lines 171-179 are the unreachable tail of an older main).
\* ======================================================================

\* bound: variants in one product page of part_000
MaxStockVariants == 2

\* part_000:16-27
TrackedColorIds ==
  {"16284", "16305", "1820", "16252", "16262", "16258", "16280", "16238"}

\* The colour ids the upstream pages are drawn from: Orca (1820) and another
\* tracked colour, and 24K Black, which is not tracked.
UpstreamColorIds == {"1820", "16284", "24K"}

\* v.stockStatus; "Other" is any value that is neither of the two.
StockStatuses == {"InStock", "OutOfStock", "Other"}

StockVariant == [colourId : UpstreamColorIds, stockStatus : StockStatuses]

\* part_000:97  product.variants || []
StockPayloads == UNION {[1..n -> StockVariant] : n \in 0..MaxStockVariants}

\* part_000:30, 100  new Map()
EmptyMap == [k \in {} |-> "undefined"]
\* Map.prototype.set
MapSet(m, k, v) == [x \in DOMAIN m \cup {k} |-> IF x = k THEN v ELSE m[x]]
\* Map.prototype.get
MapGet(m, k) == IF k \in DOMAIN m THEN m[k] ELSE "undefined"

\* The loop without the test of part_000:107: every variant of the page is
\* recorded and compared.
RECURSIVE TrackedLoopAll(_, _, _, _, _)
TrackedLoopAll(variants, i, cur, newly, prev) ==
  IF i > Len(variants)
  THEN [currentStockStatus |-> cur, newlyInStock |-> newly]
  ELSE TrackedLoopAll(variants, i + 1,
         MapSet(cur, variants[i].colourId, variants[i].stockStatus),
         IF MapGet(prev, variants[i].colourId) = "OutOfStock"
              /\ variants[i].stockStatus = "InStock"
         THEN Append(newly, variants[i].colourId)
         ELSE newly,
         prev)

\* part_000:103-128  variants.forEach
RECURSIVE TrackedLoop(_, _, _, _, _)
TrackedLoop(variants, i, cur, newly, prev) ==
  IF i > Len(variants)
  THEN [currentStockStatus |-> cur, newlyInStock |-> newly]
  ELSE IF variants[i].colourId \notin TrackedColorIds
       THEN TrackedLoop(variants, i + 1, cur, newly, prev)
       ELSE TrackedLoop(variants, i + 1,
              MapSet(cur, variants[i].colourId, variants[i].stockStatus),
              IF MapGet(prev, variants[i].colourId) = "OutOfStock"
                   /\ variants[i].stockStatus = "InStock"
              THEN Append(newly, variants[i].colourId)
              ELSE newly,
              prev)

NoLocals == [currentStockStatus |-> EmptyMap, newlyInStock |-> <<>>]

\* part_000:159-169  main once an awaited checkStock has returned, with the map
\* that checkStock left in previousStockStatus: after the first check the
\* simulated restock and the second check (up to its await), after the second
\* process.exit(0).
MainResumes(map) ==
  IF tCheckCount = 1
  THEN /\ previousStockStatus' = MapSet(map, "1820", "OutOfStock")
       /\ tCheckCount' = 2
       /\ tPc' = "fetch"
       /\ tLocals' = NoLocals
  ELSE /\ previousStockStatus' = map
       /\ tCheckCount' = tCheckCount
       /\ tPc' = "exited"
       /\ tLocals' = NoLocals

\* The variables of src/index.js.
ivars == <<commandsEnabled, previousStock, checkCount, allKnownColors,
           monitorStats, mainPc, proc, cyc, lastDiff, alertCount, transCount, eventState>>

\* part_000:150-159, 65-73  main calls the first checkStock, which awaits the page
TMainStart ==
  /\ tPc = "start"
  /\ tCheckCount' = tCheckCount + 1
  /\ tPc' = "fetch"
  /\ UNCHANGED <<previousStockStatus, tLocals, tHist, webhookConfigured, ivars, xvars>>

\* part_000:73-95 -> 144-146  the request fails, or the page has no __NEXT_DATA__
\* or no product: the catch block logs the error and checkStock returns
TFetchFails ==
  /\ tPc = "fetch"
  /\ tHist' = [tHist EXCEPT !.aborted = @ + 1]
  /\ MainResumes(previousStockStatus)
  /\ UNCHANGED <<webhookConfigured, ivars, xvars>>

\* part_000:97-142  the page is parsed: detection, then the alert or the commit
TFetchReturns(variants) ==
  /\ tPc = "fetch"
  /\ LET r == TrackedLoop(variants, 1, EmptyMap, <<>>, previousStockStatus) IN
     IF Len(r.newlyInStock) > 0 /\ Posts
     THEN \* part_000:46-47  sendRestockAlert awaits axios.post
          /\ tPc' = "alert"
          /\ tLocals' = r
          /\ tHist' = [tHist EXCEPT !.detections = @ + 1,
                                    !.baseline = ~tHist.committed,
                                    !.newly = r.newlyInStock,
                                    !.pages = Append(@, variants)]
          /\ UNCHANGED <<previousStockStatus, tCheckCount>>
     ELSE \* part_000:140  previousStockStatus = currentStockStatus
          /\ tHist' = [tHist EXCEPT !.detections = @ + 1,
                                    !.baseline = ~tHist.committed,
                                    !.newly = r.newlyInStock,
                                    !.pages = Append(@, variants),
                                    !.committed = TRUE]
          /\ MainResumes(r.currentStockStatus)
  /\ UNCHANGED <<webhookConfigured, ivars, xvars>>

\* part_000:57-61, 140  the post resolves or rejects (logged); then the commit
TAlertReturns(ok) ==
  /\ tPc = "alert"
  /\ tHist' = [tHist EXCEPT !.committed = TRUE,
                            !.undelivered = IF ok THEN @ ELSE @ + 1]
  /\ MainResumes(tLocals.currentStockStatus)
  /\ UNCHANGED <<webhookConfigured, ivars, xvars>>

\* part_000:29-31
InitTracked ==
  /\ previousStockStatus = EmptyMap
  /\ tCheckCount = 0
  /\ tPc = "start"
  /\ tLocals = NoLocals
  /\ tHist = [detections |-> 0, committed |-> FALSE, baseline |-> FALSE,
              newly |-> <<>>, aborted |-> 0, undelivered |-> 0, pages |-> <<>>]

NextTracked ==
  \/ TMainStart
  \/ TFetchFails
  \/ \E variants \in StockPayloads : TFetchReturns(variants)
  \/ \E ok \in BOOLEAN : TAlertReturns(ok)

\* ======================================================================
\* src/index.js lines 542-833: the second program ("FINAL FIXED VERSION").
\* It reads colourOptions.options and variants of pageProps.product only and
\* sends no probes.
\* ======================================================================

\* bound: checkStock invocations of the second program per behaviour
MaxFinalChecks == 2
\* bound: colour options in one page of the second program
MaxColours == 2

FCycles == 1..MaxFinalChecks

\* v.stockStatus as stockMap.get gives it ("undefined": no variant of the colour)
FStatuses == {"InStock", "OutOfStock", "undefined"}

\* The parsed page: where the product sits in __NEXT_DATA__ ("pageProps": at
\* props.pageProps.product, "dehydratedState": only inside a dehydrated query,
\* "none": nowhere), the values of its colourOptions.options and the stockMap
\* built from its variants (index.js:685-688).
FPages ==
  [product : {"pageProps", "dehydratedState", "none"},
   colourOptions : UNION {[1..n -> VariantIds] : n \in 0..MaxColours},
   stockMap : [VariantIds -> FStatuses]]

\* index.js:693-709  colorOptions.forEach from option i on
RECURSIVE Categorize(_, _, _, _)
Categorize(colorOptions, stockMap, i, cur) ==
  IF i > Len(colorOptions) THEN cur
  ELSE Categorize(colorOptions, stockMap, i + 1,
         IF stockMap[colorOptions[i]] = "InStock"
         THEN [cur EXCEPT !.inStock = Append(@, [colorId |-> colorOptions[i]])]
         ELSE [cur EXCEPT !.outOfStock = Append(@, [colorId |-> colorOptions[i]])])

\* index.js:715-719
FNewlyAvailable(prev, cur) ==
  IF Len(prev.outOfStock) > 0 \/ Len(prev.inStock) > 0
  THEN SelectSeq(cur.inStock,
                 LAMBDA color : \E k \in 1..Len(prev.outOfStock) :
                                   prev.outOfStock[k].colorId = color.colorId)
  ELSE <<>>

\* A checkStock invocation of the second program that has not started.  where
\* and listed are history annotations: where the product of its page sat and
\* how many colour options that product listed.
FIdleCycle ==
  [pc |-> "idle", currentStock |-> EmptyStock,
   where |-> "none", listed |-> 0, outcome |-> "none"]

FInFlight(rec) == rec.pc \notin {"idle", "done"}

\* index.js:729-733  where checkStock waits next once the restock alert is over
FNextAfterAlert(count) ==
  IF count % SnapshotEvery = 0 /\ Posts THEN "snapshot" ELSE "done"

\* The end of one run of checkStock code of the second program (index.js:735
\* previousStock = currentStock when the try block ran to its end).
FLand(c, rec, pcNext, failed) ==
  /\ fPreviousStock' = IF pcNext = "done" /\ ~failed THEN rec.currentStock
                       ELSE fPreviousStock
  /\ fCyc' = [fCyc EXCEPT ![c] =
       IF pcNext = "done"
       THEN [rec EXCEPT !.pc = "done", !.currentStock = EmptyStock,
                        !.outcome = IF failed THEN "aborted" ELSE "committed"]
       ELSE [rec EXCEPT !.pc = pcNext]]
  /\ fMainPc' = IF pcNext = "done" /\ c = 1 /\ fMainPc = "initial" THEN "polling"
                ELSE fMainPc

\* index.js:635-654  checkStock up to the await of axios.get
FStartCheck ==
  /\ fCheckCount < MaxFinalChecks
  /\ fCheckCount' = fCheckCount + 1
  /\ fMonitorStats' = [fMonitorStats EXCEPT !.totalChecks = @ + 1]
  /\ fCyc' = [fCyc EXCEPT ![fCheckCount + 1] = [FIdleCycle EXCEPT !.pc = "fetch"]]
  /\ UNCHANGED <<fPreviousStock, fProc, webhookConfigured, ivars, tvars, app, gvars>>

\* index.js:805-808  main: setupDiscordBot, then the initial check
FMainInitialCheck ==
  /\ fProc # "exited"
  /\ fMainPc = "start"
  /\ fMainPc' = "initial"
  /\ FStartCheck

\* index.js:811  setInterval(checkStock, ...): the timer fires
FIntervalTrigger ==
  /\ fProc # "exited"
  /\ fMainPc = "polling"
  /\ UNCHANGED fMainPc
  /\ FStartCheck

\* index.js:780-782  the !check command
FManualCheck ==
  /\ fProc # "exited"
  /\ commandsEnabled
  /\ fMainPc # "start"
  /\ UNCHANGED fMainPc
  /\ FStartCheck

\* index.js:736-746  the catch block: errors++, then the error notification
FCatch(c, rec) ==
  /\ fMonitorStats' = [fMonitorStats EXCEPT !.errors = @ + 1]
  /\ FLand(c, rec, IF Posts THEN "error" ELSE "done", TRUE)

\* index.js:645-660 -> 736  the request fails, the page has no __NEXT_DATA__
\* script or JSON.parse throws
FFetchFails(c) ==
  /\ fProc # "exited"
  /\ fCyc[c].pc = "fetch"
  /\ FCatch(c, fCyc[c])
  /\ UNCHANGED <<fCheckCount, fProc, webhookConfigured, ivars, tvars, app, gvars>>

\* index.js:661-735  the page is parsed: the product, the categories, the
\* detection, then the alert, the snapshot or the commit
FPageParsed(c, page) ==
  /\ fProc # "exited"
  /\ fCyc[c].pc = "fetch"
  /\ LET rec == [fCyc[c] EXCEPT !.where = page.product,
                                !.listed = Len(page.colourOptions)] IN
     IF page.product # "pageProps"
     THEN \* index.js:664-667  throw new Error('Product data not found')
          FCatch(c, rec)
     ELSE LET cur == Categorize(page.colourOptions, page.stockMap, 1, EmptyStock)
              newly == FNewlyAvailable(fPreviousStock, cur) IN
          /\ fMonitorStats' = [fMonitorStats EXCEPT !.totalRestocks = @ + Len(newly)]
          /\ FLand(c, [rec EXCEPT !.currentStock = cur],
                   IF Len(newly) > 0 /\ Posts THEN "alert" ELSE FNextAfterAlert(fCheckCount),
                   FALSE)
  /\ UNCHANGED <<fCheckCount, fProc, webhookConfigured, ivars, tvars, app, gvars>>

\* index.js:580-595  axios.post of a notification resolves or rejects (logged)
FNotifyReturns(c, ok) ==
  /\ fProc # "exited"
  /\ fCyc[c].pc \in {"alert", "snapshot", "error"}
  /\ CASE fCyc[c].pc = "alert"    -> FLand(c, fCyc[c], FNextAfterAlert(fCheckCount), FALSE)
       [] fCyc[c].pc = "snapshot" -> FLand(c, fCyc[c], "done", FALSE)
       [] fCyc[c].pc = "error"    -> FLand(c, fCyc[c], "done", TRUE)
  /\ UNCHANGED <<fCheckCount, fMonitorStats, fProc, webhookConfigured, ivars, tvars, app, gvars>>

\* index.js:817-827  SIGTERM / SIGINT: the handler sends 'Monitor Stopped'
FSignal ==
  /\ fProc = "running"
  /\ fProc' = IF Posts THEN "stopping" ELSE "exited"
  /\ UNCHANGED <<fPreviousStock, fCheckCount, fMonitorStats, fMainPc, fCyc,
                 webhookConfigured, ivars, tvars, app, gvars>>

\* index.js:820, 826  the notification is over: process.exit(0)
FShutdownExit ==
  /\ fProc = "stopping"
  /\ fProc' = "exited"
  /\ UNCHANGED <<fPreviousStock, fCheckCount, fMonitorStats, fMainPc, fCyc,
                 webhookConfigured, ivars, tvars, app, gvars>>

\* index.js:564-571
InitFinal ==
  /\ fPreviousStock = EmptyStock
  /\ fCheckCount = 0
  /\ fMonitorStats = [totalChecks |-> 0, totalRestocks |-> 0, errors |-> 0]
  /\ fMainPc = "start"
  /\ fProc = "running"
  /\ fCyc = [c \in FCycles |-> FIdleCycle]

NextFinal ==
  \/ FMainInitialCheck
  \/ FIntervalTrigger
  \/ FManualCheck
  \/ \E c \in FCycles : FFetchFails(c)
  \/ \E c \in FCycles : \E page \in FPages : FPageParsed(c, page)
  \/ \E c \in FCycles : \E ok \in BOOLEAN : FNotifyReturns(c, ok)
  \/ FSignal
  \/ FShutdownExit

\* ======================================================================
\* Functions checked on their own: one application in a behaviour, held in app.
\* ======================================================================

NoApp == [fn |-> "none", in |-> <<>>, out |-> <<>>]

InitFunctions == app = NoApp

\* The variables of the programs, which the applications leave alone.
pvars == <<webhookConfigured, ivars, tvars, fvars, gvars>>

\* A property read from parsed JSON and tested with === true / === false:
\* "undefined" stands for a missing property and for any other value.
Flag == {"true", "false", "undefined"}

\* What a probe request of checkVariantStock comes back with.  failed: axios.get
\* rejected (transport error, timeout, status).  Otherwise the page:
\*   nextData     "none": no __NEXT_DATA__ script; "bad": JSON.parse throws;
\*                "ok": parsed (a page without product has all flags undefined)
\*   ATC, available            product.ATC, product.available
\*   selAvailable, selATC      product.selectedColour.available / .ATC
\*   variantAvailable          part_001 only: available of the entry of
\*                product.variants for this variant ("absent": no such entry or
\*                no such property; "null": the property holds null)
\*   notifyMe     'notify me' text (index.js) / a "Notify me" button (part_001)
\*   addToCart    'add to cart', 'add to bag', 'shop now', '"atc"' (index.js) /
\*                an "Add to", "Shop now" or add-to button (part_001)
\*   disabled     'disabled' text
\*   outOfStock   'out of stock' text
\*   soldOut      'sold out' text
ProbePages ==
  {p \in [nextData : {"none", "bad", "ok"}, ATC : Flag, available : Flag,
          selAvailable : Flag, selATC : Flag,
          variantAvailable : {"absent", "true", "false", "null"},
          notifyMe : BOOLEAN, addToCart : BOOLEAN, disabled : BOOLEAN,
          outOfStock : BOOLEAN, soldOut : BOOLEAN] :
     p.nextData # "ok" =>
        /\ p.ATC = "undefined" /\ p.available = "undefined"
        /\ p.selAvailable = "undefined" /\ p.selATC = "undefined"
        /\ p.variantAvailable = "absent"}

\* The responses to a probe of index.js, which does not read product.variants,
\* and to one of part_001, which does not read product.selectedColour.
ProbeResponses ==
  [failed : {TRUE}] \cup
  {[failed |-> FALSE, page |-> p] : p \in {q \in ProbePages : q.variantAvailable = "absent"}}
ProbeResponsesPage ==
  [failed : {TRUE}] \cup
  {[failed |-> FALSE, page |-> p] :
     p \in {q \in ProbePages : q.selAvailable = "undefined" /\ q.selATC = "undefined"}}

\* index.js:303-331  Method 1: the flags of __NEXT_DATA__, in the order tested
NextDataFlag(p) ==
  IF p.nextData # "ok" THEN "undefined"
  ELSE IF p.ATC # "undefined" THEN p.ATC
  ELSE IF p.available # "undefined" THEN p.available
  ELSE IF p.selAvailable # "undefined" THEN p.selAvailable
  ELSE p.selATC

\* index.js:336-359  Methods 2 to 4 on the lower-cased page text
PageTextStatus(p) ==
  IF p.notifyMe THEN "false"
  ELSE IF p.addToCart /\ ~p.disabled /\ ~p.outOfStock THEN "true"
  ELSE IF p.outOfStock \/ p.soldOut THEN "false"
  ELSE "null"

\* index.js:285-365  checkVariantStock(variantId, label)
CheckVariantStock(resp) ==
  IF resp.failed THEN "null"
  ELSE IF NextDataFlag(resp.page) # "undefined" THEN NextDataFlag(resp.page)
  ELSE PageTextStatus(resp.page)

\* part_001:368-408  checkVariantStock(variantId, variantInfo) once the request
\* is sent: variantInfo.available is not a boolean and productId is set
CheckVariantStockPage(resp) ==
  IF resp.failed THEN "null"
  ELSE LET p == resp.page IN
       IF p.nextData = "ok" /\ p.variantAvailable # "absent" THEN p.variantAvailable
       ELSE IF p.nextData = "ok" /\ (p.ATC = "false" \/ p.available = "false") THEN "false"
       ELSE IF p.outOfStock \/ p.notifyMe THEN "false"
       ELSE IF p.addToCart THEN "true"
       ELSE "null"

\* index.js:285  a probe of the first program is answered
ApplyCheckVariantStock ==
  /\ app = NoApp
  /\ \E resp \in ProbeResponses :
     /\ app' = [fn |-> "checkVariantStock", in |-> resp, out |-> CheckVariantStock(resp)]
     /\ UNCHANGED pvars

\* part_001:344  a probe of part_001 is answered
ApplyCheckVariantStockPage ==
  /\ app = NoApp
  /\ \E resp \in ProbeResponsesPage :
     /\ app' = [fn |-> "checkVariantStockPage", in |-> resp, out |-> CheckVariantStockPage(resp)]
     /\ UNCHANGED pvars

\* bound: entries of the Map allKnownColors of part_001
MaxKnownColors == 2

\* part_001:256-266  a variantInfo; available is option.available as the API
\* gave it ("undefined": missing, null or not a boolean)
VariantInfo == [variantId : VariantIds, available : Flag]

\* The Map allKnownColors of part_001 as its entries in insertion order.
KnownColors ==
  {m \in UNION {[1..n -> VariantInfo] : n \in 0..MaxKnownColors} :
     \A j, k \in 1..Len(m) : j # k => m[j].variantId # m[k].variantId}

\* part_001:344-366  checkVariantStock(variantId, variantInfo) up to its request.
\* A call without the second argument throws a TypeError at line 347 (undefined
\* has no property available), which the catch at 409-412 turns into null.
CheckVariantStockArgs(variantInfo, productIdSet) ==
  IF variantInfo = "undefined" THEN [request |-> FALSE, result |-> "null"]
  ELSE IF variantInfo.available \in {"true", "false"}
       THEN [request |-> FALSE, result |-> variantInfo.available]
  ELSE IF ~productIdSet THEN [request |-> FALSE, result |-> "null"]
  ELSE [request |-> TRUE, result |-> "null"]

\* part_001:426-436  the partition a result is pushed to
PushTri(stockData, variantInfo, r) ==
  IF r = "true" THEN [stockData EXCEPT !.inStock = Append(@, variantInfo)]
  ELSE IF r = "false" THEN [stockData EXCEPT !.outOfStock = Append(@, variantInfo)]
  ELSE [stockData EXCEPT !.unknown = Append(@, variantInfo)]

\* part_001:415-445  checkAllVariantStocks: line 424 calls
\* checkVariantStock(variantId) with one argument.  answers[i] is what the page
\* of entry i would be classified as; requests lists the variants asked for.
RECURSIVE CheckAllVariantStocks(_, _, _, _, _, _)
CheckAllVariantStocks(colors, answers, productIdSet, i, stockData, requests) ==
  IF i > Len(colors) THEN [stockData |-> stockData, requests |-> requests]
  ELSE LET call == CheckVariantStockArgs("undefined", productIdSet)
           isAvailable == IF call.request THEN answers[i] ELSE call.result IN
       CheckAllVariantStocks(colors, answers, productIdSet, i + 1,
          PushTri(stockData, colors[i], isAvailable),
          IF call.request THEN Append(requests, colors[i].variantId) ELSE requests)

\* part_001:418-422
EmptyStockData == [inStock |-> <<>>, outOfStock |-> <<>>, unknown |-> <<>>]

ResolverInputs ==
  {[colors |-> m, answers |-> a, productIdSet |-> b] :
     m \in KnownColors, a \in UNION {[1..n -> Tri] : n \in 0..MaxKnownColors},
     b \in BOOLEAN}

\* part_001:415  the resolver of part_001 runs over the known colours
ApplyCheckAllVariantStocks ==
  /\ app = NoApp
  /\ \E arg \in ResolverInputs :
     /\ Len(arg.answers) = Len(arg.colors)
     /\ app' = [fn |-> "checkAllVariantStocks", in |-> arg,
                out |-> CheckAllVariantStocks(arg.colors, arg.answers, arg.productIdSet,
                                              1, EmptyStockData, <<>>)]
     /\ UNCHANGED pvars

\* ---- the colour options of a product (index.js:220-251, part_001:312-317)

\* The arrays a location may hold: empty, or one of two different lists.
OptionLists == {<<>>, <<"a">>, <<"b">>}

\* A JavaScript value found at a location of the product:
\*   "undefined"  no such property
\*   "array"      an array, items
\*   "object"     an object whose property options is the array items
\*   "plain"      an object without a property options
Undefined == [kind |-> "undefined", items |-> <<>>]
Arr(items) == [kind |-> "array", items |-> items]
JsValues ==
  {Undefined, [kind |-> "plain", items |-> <<>>]}
    \cup {[kind |-> k, items |-> l] : k \in {"array", "object"}, l \in OptionLists}
JsArrays == {Undefined} \cup {Arr(l) : l \in OptionLists}

\* v?.options
Options(v) == IF v.kind = "object" THEN Arr(v.items) ELSE Undefined

\* The product as far as its colour options go.  deepColourOptions is what a
\* property colourOptions nested below the top level holds (the first one
\* findInObject comes to), deepColorOptions likewise.
Products ==
  [colourOptions : JsValues, colorOptions : JsValues,
   variationsColorValues : JsArrays, variationAttributesColorValues : JsArrays,
   deepColourOptions : JsValues, deepColorOptions : JsValues]

\* index.js:129-146  findInObject(product, key) for the two keys it is called
\* with: the top-level property when there is one, else the nested one, else
\* null (which the loop of index.js:234 skips like undefined).
FindInObject(top, deep) == IF top.kind # "undefined" THEN top ELSE deep

\* index.js:223-232  colorPaths
ColorPaths(product) ==
  << Options(product.colourOptions),
     Options(product.colorOptions),
     product.colourOptions,
     product.colorOptions,
     product.variationsColorValues,
     product.variationAttributesColorValues,
     FindInObject(product.colourOptions, product.deepColourOptions),
     FindInObject(product.colorOptions, product.deepColorOptions) >>

\* index.js:234-246  the loop over colorPaths from path i on: whether a path was
\* taken (colorOptions is not null any more) and the value it gave
RECURSIVE FirstColorPath(_, _)
FirstColorPath(paths, i) ==
  IF i > Len(paths) THEN [taken |-> FALSE, items |-> <<>>]
  ELSE IF paths[i].kind = "array" /\ Len(paths[i].items) > 0
       THEN [taken |-> TRUE, items |-> paths[i].items]
  ELSE IF paths[i].kind = "object" THEN [taken |-> TRUE, items |-> paths[i].items]
  ELSE FirstColorPath(paths, i + 1)

\* index.js:220-251  the colour options of fetchAndParseProduct, or the error
ColorOptions(product) ==
  LET colorOptions == FirstColorPath(ColorPaths(product), 1) IN
  IF ~colorOptions.taken \/ Len(colorOptions.items) = 0
  THEN [error |-> TRUE, options |-> <<>>]
  ELSE [error |-> FALSE, options |-> colorOptions.items]

\* part_001:312-315  a || b || c || []: the first operand that is truthy, and an
\* array is truthy also when it is empty
FirstTruthy(paths) ==
  IF paths[1].kind # "undefined" THEN paths[1].items
  ELSE IF paths[2].kind # "undefined" THEN paths[2].items
  ELSE IF paths[3].kind # "undefined" THEN paths[3].items
  ELSE <<>>

\* part_001:312-315  the locations parseStockData reads in an HTML page
ColorPathsHtml(product) ==
  << Options(product.colourOptions),
     Options(product.colorOptions),
     product.variationsColorValues >>

\* part_001:312-331  the colour options of parseStockData (HTML); it does not
\* throw on an empty list
ColorOptionsHtml(product) ==
  [error |-> FALSE, options |-> FirstTruthy(ColorPathsHtml(product))]

\* index.js:220  the colour options of a product are extracted
ApplyColorOptions ==
  /\ app = NoApp
  /\ \E product \in Products :
     /\ app' = [fn |-> "colorOptions",
                in |-> [product |-> product, paths |-> ColorPaths(product)],
                out |-> ColorOptions(product)]
     /\ UNCHANGED pvars

\* part_001:312  the colour options of an HTML page are extracted
ApplyColorOptionsHtml ==
  /\ app = NoApp
  /\ \E product \in Products :
     /\ app' = [fn |-> "colorOptionsHtml",
                in |-> [product |-> product, paths |-> ColorPathsHtml(product)],
                out |-> ColorOptionsHtml(product)]
     /\ UNCHANGED pvars

\* ---- where the product is taken from (index.js:186-216, part_001:167-310)

\* bound: queries in pageProps.dehydratedState.queries
MaxQueries == 2

\* query.state.data of one dehydrated query: whether it has a product, and
\* whether it has colourOptions or colorOptions itself
QueryData == [product : BOOLEAN, colourOptions : BOOLEAN]

\* pageProps as far as the product goes.  queries is
\* dehydratedState.queries, <<>> also when there is no dehydratedState.
PageProps ==
  [product : BOOLEAN,
   queries : UNION {[1..n -> QueryData] : n \in 0..MaxQueries},
   initialData : BOOLEAN]

NoProduct == [from |-> "none", query |-> 0]

\* index.js:189-204  the loop over the queries from query i on
RECURSIVE FirstQuery(_, _)
FirstQuery(queries, i) ==
  IF i > Len(queries) THEN NoProduct
  ELSE IF queries[i].product THEN [from |-> "dehydratedState.product", query |-> i]
  ELSE IF queries[i].colourOptions THEN [from |-> "dehydratedState.data", query |-> i]
  ELSE FirstQuery(queries, i + 1)

\* index.js:206-210  Check initialData
FromInitialData(pageProps, product) ==
  IF product.from = "none" /\ pageProps.initialData
  THEN [from |-> "initialData", query |-> 0] ELSE product

\* Mutant of FindProduct: initialData is looked at before the queries.
FindProductInitialFirst(pageProps) ==
  LET direct == IF pageProps.product THEN [from |-> "pageProps", query |-> 0] ELSE NoProduct
      initial == FromInitialData(pageProps, direct) IN
  IF initial.from = "none" THEN FirstQuery(pageProps.queries, 1) ELSE initial

\* index.js:186-216  the product of fetchAndParseProduct: where it was found
\* ("none": the error of line 212-215 is thrown)
FindProduct(pageProps) ==
  LET direct == IF pageProps.product THEN [from |-> "pageProps", query |-> 0] ELSE NoProduct
      cached == IF direct.from = "none" THEN FirstQuery(pageProps.queries, 1) ELSE direct IN
  FromInitialData(pageProps, cached)

\* part_001:167-233  fetchProductData: what it returns, given what the GraphQL
\* request ("fails", "noProduct", "product") and the page request ("fails",
\* "page") come back with
FetchProductData(api, html) ==
  IF api = "product" THEN "object"
  ELSE IF html = "page" THEN "string"
  ELSE "throws"

\* part_001:243-279, 281-283  the branch parseStockData takes for its argument
ParseStockDataBranch(data) == IF data = "object" THEN "api" ELSE "html"

\* index.js:186  the product is looked for in pageProps
ApplyFindProduct ==
  /\ app = NoApp
  /\ \E pageProps \in PageProps :
        /\ app' = [fn |-> "findProduct", in |-> pageProps, out |-> FindProduct(pageProps)]
        /\ UNCHANGED pvars

\* part_001:167, 235  the payload is fetched and handed to parseStockData
ApplyParseStockData ==
  /\ app = NoApp
  /\ \E api \in {"fails", "noProduct", "product"}, html \in {"fails", "page"} :
        /\ app' = [fn |-> "parseStockData", in |-> [api |-> api, html |-> html],
                   out |-> LET data == FetchProductData(api, html) IN
                           IF data = "throws" THEN "throws" ELSE ParseStockDataBranch(data)]
        /\ UNCHANGED pvars

\* ----------------------------------------------------------------------
\* The availability a colour option carries in the page data
\* ----------------------------------------------------------------------

\* What a property of a colour option can hold: nothing, null, a boolean, or a
\* marker string such as the stockStatus values of the page data.
AvailabilityValues == {"undefined", "null", "true", "false", "InStock", "OutOfStock"}

\* A colour option, by the three properties index.js:262 reads.
ColourOptionFlags ==
  [available : AvailabilityValues, inStock : AvailabilityValues, ATC : AvailabilityValues]

\* a ?? b
Coalesce(a, b) == IF a \in {"undefined", "null"} THEN b ELSE a

\* index.js:262  available: opt.available ?? opt.inStock ?? opt.ATC ?? null
ExtractAvailable(opt) ==
  Coalesce(opt.available, Coalesce(opt.inStock, Coalesce(opt.ATC, "null")))

\* index.js:394-409  the loop of checkStock over one variant: null goes to
\* checkVariantStock, `=== true` to inStock, every other value to outOfStock.
ClassifyAvailable(available) ==
  IF available = "null" THEN "unknown"
  ELSE IF available = "true" THEN "inStock"
  ELSE "outOfStock"

\* part_001:256-277  parseStockData, API branch: only option.available is read
\* and only a boolean sorts the variant; any other option stays in allVariants
\* for checkAllVariantStocks.
ParseOptionAvailability(opt) ==
  IF opt.available = "true" THEN "inStock"
  ELSE IF opt.available = "false" THEN "outOfStock"
  ELSE "unknown"

ApplyExtractAvailability ==
  /\ app = NoApp
  /\ \E opt \in ColourOptionFlags :
        /\ app' = [fn |-> "extractAvailability", in |-> opt,
                   out |-> [available |-> ExtractAvailable(opt),
                            bucket |-> ClassifyAvailable(ExtractAvailable(opt))]]
        /\ UNCHANGED pvars

ApplyParseOptionAvailability ==
  /\ app = NoApp
  /\ \E opt \in ColourOptionFlags :
        /\ app' = [fn |-> "parseOptionAvailability", in |-> opt,
                   out |-> [available |-> opt.available,
                            bucket |-> ParseOptionAvailability(opt)]]
        /\ UNCHANGED pvars

\* ----------------------------------------------------------------------
\* The detection of index.js:421-426 applied to a pair of snapshots
\* ----------------------------------------------------------------------

MaxDiffEntries == 2

\* The partitions of a snapshot, by the one property the detection reads.
DiffLists == UNION {[1..n -> [variantId : VariantIds]] : n \in 0..MaxDiffEntries}
ShortDiffLists == {l \in DiffLists : Len(l) <= 1}

\* previousStock and currentStock when index.js:421 is reached
DiffInputs ==
  [previous : [inStock : ShortDiffLists, outOfStock : DiffLists],
   current  : [inStock : DiffLists, outOfStock : ShortDiffLists]]

ApplyDetectRestocks ==
  /\ app = NoApp
  /\ \E arg \in DiffInputs :
        /\ app' = [fn |-> "detectRestocks", in |-> arg,
                   out |-> DetectRestocks(arg.previous, arg.current)]
        /\ UNCHANGED pvars

\* ----------------------------------------------------------------------
\* The first program when no check starts while another one runs: the timer
\* period (5 minutes) is longer than a check and no command is given.  One
\* invocation record is enough: cyc[1] is the invocation that runs, or the
\* latest one.
\* ----------------------------------------------------------------------

MaxSerialChecks == 4

NoneInFlight == \A c \in Cycles : ~InFlight(cyc[c])

\* index.js:512-516
SerialInitialCheck ==
  /\ proc # "exited"
  /\ mainPc = "start"
  /\ mainPc' = "initial"
  /\ StartCheckIn(1, MaxSerialChecks)

\* index.js:519  the timer fires, the check before it has returned
SerialIntervalTrigger ==
  /\ proc # "exited"
  /\ mainPc = "polling"
  /\ NoneInFlight
  /\ UNCHANGED mainPc
  /\ StartCheckIn(1, MaxSerialChecks)

NextSerial ==
  \/ SerialInitialCheck
  \/ SerialIntervalTrigger
  \/ FetchFails(1)
  \/ \E variants \in Payloads : FetchReturns(1, variants)
  \/ \E r \in Tri : ProbeReturns(1, r)
  \/ DelayElapsed(1)
  \/ \E ok \in BOOLEAN : NotifyReturns(1, ok)

\* ----------------------------------------------------------------------
\* part_001: the record a cycle extracts and the snapshot its resolver builds
\* ----------------------------------------------------------------------

\* The colour options of an HTML page, by variant id, in page order.
PageOptionIds == UNION {[1..n -> VariantIds] : n \in 0..MaxKnownColors}

\* part_001:320-327  the variantInfo of the HTML branch carries no availability
HtmlVariantInfo(id) == [variantId |-> id, available |-> "undefined"]

\* Map.prototype.set on the entries in insertion order: a key that is present
\* keeps its place and takes the new value, a new key goes to the end.
EntriesSet(m, info) ==
  IF \E k \in 1..Len(m) : m[k].variantId = info.variantId
  THEN [k \in 1..Len(m) |-> IF m[k].variantId = info.variantId THEN info ELSE m[k]]
  ELSE Append(m, info)

\* part_001:319-331  colorOptions.forEach: allKnownColors.set and
\* stockData.allVariants.push for every option; the Map is never cleared.
RECURSIVE ParseOptions(_, _, _, _)
ParseOptions(ids, i, known, allVariants) ==
  IF i > Len(ids) THEN [allKnownColors |-> known, allVariants |-> allVariants]
  ELSE ParseOptions(ids, i + 1, EntriesSet(known, HtmlVariantInfo(ids[i])),
                    Append(allVariants, HtmlVariantInfo(ids[i])))

\* part_001:473-478  parseStockData, then checkAllVariantStocks, which walks
\* allKnownColors.entries() (line 424) and not the record just extracted.
ParseThenResolve(known, ids, productIdSet) ==
  LET parsed == ParseOptions(ids, 1, known, <<>>)
      colors == parsed.allKnownColors
      resolved == CheckAllVariantStocks(colors, [k \in 1..Len(colors) |-> "null"],
                                        productIdSet, 1, EmptyStockData, <<>>)
  IN [allVariants |-> parsed.allVariants, currentStock |-> resolved.stockData,
      requests |-> resolved.requests]

ApplyParseThenResolve ==
  /\ app = NoApp
  /\ \E known \in KnownColors, ids \in PageOptionIds, b \in BOOLEAN :
        /\ app' = [fn |-> "parseThenResolve",
                   in |-> [allKnownColors |-> known, options |-> ids, productIdSet |-> b],
                   out |-> ParseThenResolve(known, ids, b)]
        /\ UNCHANGED pvars

\* ----------------------------------------------------------------------
\* src/unnamed/part_001: the program as it runs.  checkStock calls
\* fetchProductPage() at line 472; the file defines fetchProductData (line
\* 167) and no fetchProductPage, so the call throws a ReferenceError inside the
\* try block before any request is made.  Lines 473-515 (parse, resolve,
\* detect, periodic snapshot, commit) are never reached.
\* ----------------------------------------------------------------------

MaxApiChecks == 12

\* part_001:22  let previousStock = {}
EmptyObject == [inStock |-> Undefined, outOfStock |-> Undefined]

\* part_001:463-522  checkStock up to its first await: the counters (464-465),
\* the ReferenceError of line 472, the catch block (520: errors++) and
\* sendErrorAlert (93: errors++) up to the axios.post of the error alert.
GStartCheck ==
  /\ gCheckCount < MaxApiChecks
  /\ gCheckCount' = gCheckCount + 1
  /\ gMonitorStats' = [gMonitorStats EXCEPT !.totalChecks = @ + 1, !.errors = @ + 2]
  /\ gHist' = [gHist EXCEPT !.aborted = @ + 1, !.cause = "ReferenceError"]
  /\ UNCHANGED gPreviousStock

\* part_001:577-580  the webhook is not configured: process.exit(1)
GMainExits ==
  /\ gMainPc = "start"
  /\ ~webhookConfigured
  /\ gMainPc' = "exited"
  /\ gProc' = "exited"
  /\ UNCHANGED <<gPreviousStock, gCheckCount, gMonitorStats, gPending, gHist>>
  /\ UNCHANGED <<webhookConfigured, ivars, tvars, fvars, app>>

\* part_001:582-591  main: setupDiscordBot, then the initial check
GMainInitialCheck ==
  /\ gProc # "exited"
  /\ gMainPc = "start"
  /\ webhookConfigured
  /\ gMainPc' = "initial"
  /\ GStartCheck
  /\ UNCHANGED <<gProc, gPending>>
  /\ UNCHANGED <<webhookConfigured, ivars, tvars, fvars, app>>

\* part_001:46-50, 591-595  the error alert of the initial check is over
\* (posted, or rejected and logged): checkStock returns, main starts the timer
GInitialCheckReturns ==
  /\ gProc # "exited"
  /\ gMainPc = "initial"
  /\ gMainPc' = "polling"
  /\ gHist' = [gHist EXCEPT !.returned = @ + 1]
  /\ UNCHANGED <<gPreviousStock, gCheckCount, gMonitorStats, gProc, gPending>>
  /\ UNCHANGED <<webhookConfigured, ivars, tvars, fvars, app>>

\* part_001:593-595  the timer fires
GIntervalTrigger ==
  /\ gProc # "exited"
  /\ gMainPc = "polling"
  /\ gPending' = gPending + 1
  /\ GStartCheck
  /\ UNCHANGED <<gMainPc, gProc>>
  /\ UNCHANGED <<webhookConfigured, ivars, tvars, fvars, app>>

\* part_001:152-155  the !check command; the response it awaits first only
\* defers the call of checkStock
GManualCheck ==
  /\ gProc # "exited"
  /\ commandsEnabled
  /\ gMainPc \in {"initial", "polling"}
  /\ gPending' = gPending + 1
  /\ GStartCheck
  /\ UNCHANGED <<gMainPc, gProc>>
  /\ UNCHANGED <<webhookConfigured, ivars, tvars, fvars, app>>

\* part_001:46-50, 521-522  the error alert of a later check is over
GErrorAlertReturns ==
  /\ gProc # "exited"
  /\ gPending > 0
  /\ gPending' = gPending - 1
  /\ gHist' = [gHist EXCEPT !.returned = @ + 1]
  /\ UNCHANGED <<gPreviousStock, gCheckCount, gMonitorStats, gMainPc, gProc>>
  /\ UNCHANGED <<webhookConfigured, ivars, tvars, fvars, app>>

\* part_001:600-610  SIGTERM / SIGINT: the handler sends 'Monitor Stopped'
GSignal ==
  /\ gProc = "running"
  /\ gMainPc # "start"
  /\ gProc' = "stopping"
  /\ UNCHANGED <<gPreviousStock, gCheckCount, gMonitorStats, gMainPc, gPending, gHist>>
  /\ UNCHANGED <<webhookConfigured, ivars, tvars, fvars, app>>

\* part_001:603, 609  process.exit(0)
GShutdownExit ==
  /\ gProc = "stopping"
  /\ gProc' = "exited"
  /\ UNCHANGED <<gPreviousStock, gCheckCount, gMonitorStats, gMainPc, gPending, gHist>>
  /\ UNCHANGED <<webhookConfigured, ivars, tvars, fvars, app>>

\* part_001:22-33
InitApi ==
  /\ gPreviousStock = EmptyObject
  /\ gCheckCount = 0
  /\ gMonitorStats = [totalChecks |-> 0, totalRestocks |-> 0, errors |-> 0]
  /\ gMainPc = "start"
  /\ gProc = "running"
  /\ gPending = 0
  /\ gHist = [aborted |-> 0, returned |-> 0, cause |-> "none",
              requests |-> 0, snapshots |-> {}]

NextApi ==
  \/ GMainExits
  \/ GMainInitialCheck
  \/ GInitialCheckReturns
  \/ GIntervalTrigger
  \/ GManualCheck
  \/ GErrorAlertReturns
  \/ GSignal
  \/ GShutdownExit

\* ----------------------------------------------------------------------
\* The !list and !snapshot commands
\* ----------------------------------------------------------------------

\* previousStock of index.js when the command arrives; EmptyStock is its
\* value until the first commit.
ListCommandStocks == [inStock : ShortDiffLists, outOfStock : ShortDiffLists]

\* index.js:95-114  sendInventorySnapshot: the message it posts
InventorySnapshot(inStock, outOfStock) ==
  [kind |-> "snapshot", inStock |-> Len(inStock), outOfStock |-> Len(outOfStock)]

\* index.js:481-482  cmd === '!list' || cmd === '!snapshot'
ListCommand(prev) == InventorySnapshot(prev.inStock, prev.outOfStock)

\* previousStock of part_001 when the command arrives: {} until the first
\* commit, then an object whose inStock and outOfStock are arrays.
MaybeLists == {Undefined} \cup {Arr(l) : l \in ShortDiffLists}
HandleListCommandStocks == [inStock : MaybeLists, outOfStock : MaybeLists]

\* x || []
OrEmpty(x) == IF x.kind = "undefined" THEN <<>> ELSE x.items

\* part_001:130-137, 158-164  handleListCommand and handleSnapshotCommand (the
\* same body): an array, even an empty one, is truthy
HandleListCommand(prev) ==
  IF prev.inStock.kind = "undefined" /\ prev.outOfStock.kind = "undefined"
  THEN [kind |-> "noData", inStock |-> 0, outOfStock |-> 0]
  ELSE InventorySnapshot(OrEmpty(prev.inStock), OrEmpty(prev.outOfStock))

ApplyListCommand ==
  /\ app = NoApp
  /\ \E prev \in ListCommandStocks :
        /\ app' = [fn |-> "listCommand", in |-> prev, out |-> ListCommand(prev)]
        /\ UNCHANGED pvars

ApplyHandleListCommand ==
  /\ app = NoApp
  /\ \E prev \in HandleListCommandStocks :
        /\ app' = [fn |-> "handleListCommand", in |-> prev, out |-> HandleListCommand(prev)]
        /\ UNCHANGED pvars

\* ----------------------------------------------------------------------
\* index.js:127-146  findInObject on parsed JSON
\* ----------------------------------------------------------------------

MaxNesting == 2

\* A JSON value: null, a primitive (tag tells two of them apart), or an object
\* as the list of its properties in the order of Object.keys.
JsonNull == [kind |-> "null", tag |-> "", fields |-> <<>>]
JsonPrim(tag) == [kind |-> "prim", tag |-> tag, fields |-> <<>>]
JsonObject(fields) == [kind |-> "object", tag |-> "", fields |-> fields]
Field(key, val) == <<[key |-> key, val |-> val]>>

\* The payloads the search is applied to.  At every level the object may hold
\* the target key "t" (null or a value), a property "a" holding a nested
\* payload, and a property "b" holding a small object with the target key; "a"
\* and "b" come in either order.
TargetFields == {<<>>, Field("t", JsonNull), Field("t", JsonPrim("x"))}
SideFields ==
  {<<>>, Field("b", JsonObject(Field("t", JsonNull))),
         Field("b", JsonObject(Field("t", JsonPrim("y"))))}

RECURSIVE JsonPayloads(_)
JsonPayloads(depth) ==
  IF depth = 0
  THEN {JsonObject(t \o b) : t \in TargetFields, b \in SideFields}
  ELSE {JsonObject(t \o b) : t \in TargetFields, b \in SideFields}
         \cup {JsonObject(t \o Field("a", sub) \o b) :
                 t \in TargetFields, b \in SideFields, sub \in JsonPayloads(depth - 1)}
         \cup {JsonObject(t \o b \o Field("a", sub)) :
                 t \in TargetFields, b \in SideFields \ {<<>>}, sub \in JsonPayloads(depth - 1)}

\* obj[targetKey] !== undefined, and obj[targetKey]
HasKey(obj, targetKey) == \E k \in 1..Len(obj.fields) : obj.fields[k].key = targetKey
ValueAt(obj, targetKey) ==
  obj.fields[CHOOSE k \in 1..Len(obj.fields) : obj.fields[k].key = targetKey].val

Max(a, b) == IF a >= b THEN a ELSE b

\* index.js:129-146  findInObject(obj, targetKey, maxDepth, currentDepth).
\* result is what it returns (null is JsonNull); deepest is a history
\* annotation: the depth of the deepest object whose properties it read (-1
\* when it read none).
RECURSIVE FindInObjectRec(_, _, _, _)
RECURSIVE FindInKeys(_, _, _, _, _, _)
FindInObjectRec(obj, targetKey, maxDepth, currentDepth) ==
  IF currentDepth > maxDepth \/ obj.kind # "object"
  THEN [result |-> JsonNull, deepest |-> -1]
  ELSE IF HasKey(obj, targetKey)
       THEN [result |-> ValueAt(obj, targetKey), deepest |-> currentDepth]
       ELSE FindInKeys(obj, 1, targetKey, maxDepth, currentDepth, currentDepth)

\* index.js:138-143  for (const key of Object.keys(obj)): the first recursive
\* call whose result is not null ends the loop
FindInKeys(obj, k, targetKey, maxDepth, currentDepth, deepest) ==
  IF k > Len(obj.fields) THEN [result |-> JsonNull, deepest |-> deepest]
  ELSE LET r == FindInObjectRec(obj.fields[k].val, targetKey, maxDepth, currentDepth + 1) IN
       IF r.result # JsonNull
       THEN [result |-> r.result, deepest |-> Max(deepest, r.deepest)]
       ELSE FindInKeys(obj, k + 1, targetKey, maxDepth, currentDepth,
                       Max(deepest, r.deepest))

ApplyFindInObject ==
  /\ app = NoApp
  /\ \E obj \in JsonPayloads(MaxNesting), maxDepth \in 0..MaxNesting :
        /\ app' = [fn |-> "findInObject", in |-> [obj |-> obj, maxDepth |-> maxDepth],
                   out |-> FindInObjectRec(obj, "t", maxDepth, 0)]
        /\ UNCHANGED pvars

\* index.js:14-37  the module's top level
InitIndex ==
  /\ webhookConfigured \in BOOLEAN
  /\ commandsEnabled \in BOOLEAN
  /\ previousStock = EmptyStock
  /\ checkCount = 0
  /\ allKnownColors = {}
  /\ monitorStats = [totalChecks |-> 0, totalRestocks |-> 0, errors |-> 0]
  /\ mainPc = "start"
  /\ proc = "running"
  /\ cyc = [c \in Cycles |-> IdleCycle]
  /\ lastDiff = [by |-> 0, variants |-> <<>>, previous |-> EmptyStock,
                 current |-> EmptyStock, newly |-> <<>>]
  /\ alertCount = [v \in VariantIds |-> 0]
  /\ transCount = [v \in VariantIds |-> 0]
  /\ eventState = [v \in VariantIds |-> "none"]

Init == InitIndex /\ InitTracked /\ InitFunctions /\ InitFinal /\ InitApi

Next ==
  \/ MainInitialCheck
  \/ IntervalTrigger
  \/ ManualCheck
  \/ \E c \in Cycles : FetchFails(c)
  \/ \E c \in Cycles : \E variants \in Payloads : FetchReturns(c, variants)
  \/ \E c \in Cycles : \E r \in Tri : ProbeReturns(c, r)
  \/ \E c \in Cycles : DelayElapsed(c)
  \/ \E c \in Cycles : \E ok \in BOOLEAN : NotifyReturns(c, ok)
  \/ Signal
  \/ ShutdownExit

Spec == Init /\ [][Next]_vars

\* index.js:159, 296  every axios.get carries a timeout (30 s for the product
\* page, 15 s for a variant page) and the delay of index.js:400 is a timer: the
\* fetch, the probe and the delay of an invocation each come to an end.  The
\* axios.post of index.js:73 carries no timeout: nothing makes it return.
Fairness ==
  \A c \in Cycles :
     /\ WF_vars(FetchFails(c) \/ \E variants \in Payloads : FetchReturns(c, variants))
     /\ WF_vars(\E r \in Tri : ProbeReturns(c, r))
     /\ WF_vars(DelayElapsed(c))

SpecLive == Init /\ [][Next]_vars /\ Fairness

\* part_000 has no command surface.
InitNoCommands == Init /\ ~commandsEnabled

SpecTracked == InitNoCommands /\ [][NextTracked]_vars

SpecFinal == Init /\ [][NextFinal]_vars

\* Each behaviour applies one function to one argument.
InitConfigured == Init /\ webhookConfigured /\ ~commandsEnabled

SpecApi == Init /\ [][NextApi]_vars

SpecSerial == InitConfigured /\ [][NextSerial]_vars

NextFunctions ==
  \/ ApplyCheckVariantStock
  \/ ApplyCheckVariantStockPage
  \/ ApplyCheckAllVariantStocks
  \/ ApplyColorOptions
  \/ ApplyColorOptionsHtml
  \/ ApplyFindProduct
  \/ ApplyParseStockData
  \/ ApplyFindInObject
  \/ ApplyHandleListCommand
  \/ ApplyListCommand
  \/ ApplyParseThenResolve
  \/ ApplyDetectRestocks
  \/ ApplyParseOptionAvailability
  \/ ApplyExtractAvailability

SpecFunctions == InitConfigured /\ [][NextFunctions]_vars

\* ======================================================================
\* Claims about src/unnamed/part_000, checked under SpecTracked
\* ======================================================================

\* C1: a cycle that runs while no snapshot has yet been committed (the first
\* cycle, or a cycle after only failed cycles) emits zero restock events.
C1_NoRestockBeforeBaseline ==
  tHist.baseline => tHist.newly = <<>>

\* ======================================================================
\* Claims about src/index.js (first program), checked under Spec
\* ======================================================================

Quiescent == \A c \in Cycles : ~InFlight(cyc[c])

\* C2: when a previous snapshot exists, a variant is in the cycle's restock list
\* if and only if it is Available in the current snapshot and was exactly
\* Unavailable in the previous committed snapshot.
C2_RestockIffUnavailableThenAvailable ==
  (lastDiff.by # 0 /\ HasPrevious(lastDiff.previous)) =>
     \A v \in VariantIds :
        Names(lastDiff.newly, v) <=>
          (AvailableIn(lastDiff.current, v) /\ UnavailableIn(lastDiff.previous, v))

\* C3: a variant that was Unknown in the previous committed snapshot (no explicit
\* flag, probe inconclusive or failed) and is Available in the current one
\* produces no restock event.
C3_UnknownThenAvailableNoEvent ==
  lastDiff.by # 0 =>
     \A v \in VariantIds :
        (UnknownIn(lastDiff.previous, v) /\ ~UnavailableIn(lastDiff.previous, v)
           /\ AvailableIn(lastDiff.current, v))
        => ~Names(lastDiff.newly, v)

\* C4: at most one check cycle is in flight at any time.
C4_AtMostOneCycleInFlight ==
  Cardinality({c \in Cycles : InFlight(cyc[c])}) <= 1

\* C5: over any execution, the restock alerts that name variant v are never
\* more than the times v went from Unavailable in one committed snapshot to
\* Available in the next (counted once every started cycle has returned).
C5_AlertedAtMostOncePerTransition ==
  Quiescent => \A v \in VariantIds : alertCount[v] <= transCount[v]

\* C6: the committed snapshot is not replaced by another cycle between a cycle's
\* start and its own detection and commit, so the detection compares against the
\* snapshot that was committed when the cycle started.
C6_DiffAgainstSnapshotAtStart ==
  \A c \in Cycles :
     (cyc[c].pc \in {"alert", "snapshot"} \/ cyc[c].outcome = "committed")
     => ~cyc[c].interfered

\* The snapshot that the loop of index.js:391-410 builds from variants when the
\* availabilities it settles on are res.
RECURSIVE Build(_, _, _, _)
Build(variants, res, i, cur) ==
  IF i > Len(variants) THEN cur
  ELSE Build(variants, res, i + 1, Push(cur, variants[i], res[i]))

\* snap is a whole snapshot of variants: every variant is in it, none is missing.
Whole(snap, variants) ==
  /\ variants # <<>>
  /\ \E res \in [1..Len(variants) -> Tri] :
        /\ \A k \in 1..Len(variants) :
              variants[k].available # "null" => res[k] = variants[k].available
        /\ snap = Build(variants, res, 1, EmptyStock)

\* C7: in every cycle the committed snapshot is replaced only after that cycle's
\* detection and the dispatch of its restock alert have finished, and in one
\* step: its new value is the whole snapshot of the cycle that returns.
C7_CommitAfterDiffInOneStep ==
  [][ previousStock' # previousStock =>
        \E c \in Cycles :
           /\ InFlight(cyc[c])
           /\ cyc'[c].pc = "done"
           /\ cyc'[c].outcome = "committed"
           /\ \/ /\ cyc[c].pc \in {"alert", "snapshot"}
                 /\ previousStock' = cyc[c].currentStock
                 /\ Whole(cyc[c].currentStock, cyc[c].variants)
              \/ /\ cyc[c].pc \in {"fetch", "delay"}
                 /\ lastDiff'.by = c
                 /\ lastDiff'.previous = previousStock
                 /\ previousStock' = lastDiff'.current
                 /\ Whole(lastDiff'.current, lastDiff'.variants) ]_vars

\* C7 witness: a cycle found a restock, its alert was posted and answered, and
\* only then its snapshot became the committed one.
C7_Witness ==
  /\ webhookConfigured
  /\ lastDiff.by # 0
  /\ Len(lastDiff.newly) > 0
  /\ cyc[lastDiff.by].outcome = "committed"
  /\ previousStock = lastDiff.current

\* C8: when a cycle aborts with a fetch or extraction error, the committed
\* snapshot after the cycle is identical to the committed snapshot before it.
C8_AbortLeavesSnapshot ==
  \A c \in Cycles : cyc[c].outcome = "aborted" => cyc[c].kept

\* C9: every cycle-level error is caught inside the cycle and an error report is
\* sent through the notification channel (reported: the catch block posted one).
C9_CycleErrorReported ==
  \A c \in Cycles : cyc[c].outcome = "aborted" => cyc[c].reported

\* C10: a notification that fails to be delivered never aborts the cycle, which
\* still commits, and the transitions of a failed restock alert are not alerted
\* again by another cycle.
C10_FailedDeliveryNotRepeated ==
  \A c \in Cycles :
     /\ (cyc[c].pc = "done" /\ cyc[c].undelivered \cap {"alert", "snapshot"} # {})
          => cyc[c].outcome = "committed"
     /\ "alert" \in cyc[c].undelivered => \A d \in Cycles : c \notin cyc[d].repeated

\* C11: the process does not exit while a cycle is in flight: when a shutdown
\* signal arrives during a cycle, the exit waits until the cycle has committed
\* its snapshot or reported its failure.
C11_NoExitWhileCycleInFlight ==
  proc = "exited" => \A c \in Cycles : ~InFlight(cyc[c])

\* C12: once a shutdown signal has been received (the handler is sending its
\* notification), no interval trigger and no manual check begins a cycle.
C12_NoCycleStartsAfterSignal ==
  [][proc = "stopping" => checkCount' = checkCount]_vars

\* C15: a variant whose probe failed (it returned null) is Unknown in the
\* committed snapshot: it is in neither the in-stock nor the out-of-stock
\* partition.
C15_FailedProbeLeavesUnknown ==
  /\ \A k \in 1..Len(previousStock.inStock) :
        previousStock.inStock[k].isAvailable # "null"
  /\ \A k \in 1..Len(previousStock.outOfStock) :
        previousStock.outOfStock[k].isAvailable # "null"

\* C16: a probe request is sent only when the pacing delay that follows the
\* previous probe request is over: no probe is awaited while another
\* invocation awaits its probe or the delay after it.
C16_ProbesArePaced ==
  Cardinality({c \in Cycles : cyc[c].pc \in {"probe", "delay"}}) <= 1

\* ======================================================================
\* Claims about functions, checked under SpecFunctions
\* ======================================================================

\* The values of the explicit structured availability flags of a probe page.
FlagValues(p) ==
  IF p.nextData # "ok" THEN {}
  ELSE ({p.ATC, p.available, p.selAvailable, p.selATC} \ {"undefined"})
         \cup ({p.variantAvailable} \ {"absent"})

\* C14: for every combination of markers in a probe response the classification
\* is the outcome of the first matching rule: (1) an explicit structured flag,
\* (2) notify-me gives Unavailable, (3) add-to-cart with no disabled or
\* out-of-stock marker gives Available, (4) out-of-stock or sold-out text gives
\* Unavailable, (5) otherwise Unknown.
C14_ProbeFirstMatchingRule ==
  (app.fn \in {"checkVariantStock", "checkVariantStockPage"} /\ ~app.in.failed) =>
     LET p == app.in.page IN
     IF FlagValues(p) # {} THEN app.out \in FlagValues(p)
     ELSE IF p.notifyMe THEN app.out = "false"
     ELSE IF p.addToCart /\ ~p.disabled /\ ~p.outOfStock THEN app.out = "true"
     ELSE IF p.outOfStock \/ p.soldOut THEN app.out = "false"
     ELSE app.out = "null"

\* The same order of rules, for the probe of index.js alone.
IndexProbeFirstMatchingRule ==
  app.fn = "checkVariantStock" => C14_ProbeFirstMatchingRule

\* The times variant v occurs in a list of variant ids.
Count(ids, v) == Cardinality({k \in 1..Len(ids) : ids[k] = v})

\* C13: the resolver issues exactly one probe for each variant whose extracted
\* availability is Unknown and none for a variant whose availability is known,
\* and a known availability is passed through unchanged into the new snapshot.
C13_OneProbePerUnknownVariant ==
  app.fn = "checkAllVariantStocks" =>
     \A k \in 1..Len(app.in.colors) :
        LET info == app.in.colors[k] IN
        /\ info.available = "undefined" => Count(app.out.requests, info.variantId) = 1
        /\ info.available # "undefined" => Count(app.out.requests, info.variantId) = 0
        /\ info.available = "true" =>
              \E j \in 1..Len(app.out.stockData.inStock) :
                 app.out.stockData.inStock[j] = info
        /\ info.available = "false" =>
              \E j \in 1..Len(app.out.stockData.outOfStock) :
                 app.out.stockData.outOfStock[j] = info

\* The list a candidate location holds: the array itself, or the array under
\* the property options of the object found there.
ListAt(v) == IF v.kind \in {"array", "object"} THEN v.items ELSE <<>>

\* C17: extraction of the colour-option list fails only if no candidate location
\* holds a non-empty list; when at least one does, extraction succeeds and
\* returns the list of the first such location in priority order.
C17_FirstNonEmptyLocation ==
  app.fn \in {"colorOptions", "colorOptionsHtml"} =>
     \A k \in 1..Len(app.in.paths) :
        (/\ Len(ListAt(app.in.paths[k])) > 0
         /\ \A j \in 1..(k - 1) : Len(ListAt(app.in.paths[j])) = 0)
        => (~app.out.error /\ app.out.options = ListAt(app.in.paths[k]))

\* Query i of the cached-query wrapper matches.
QueryMatches(q) == q.product \/ q.colourOptions

\* C20: the product is taken from a lower-priority location only when every
\* higher-priority location failed to match: the direct product field wins over
\* the cached-query wrapper (its first matching query), which wins over the
\* initial-data wrapper, and a structured API object wins over HTML parsing; a
\* product is found whenever some location matches.
C20_HigherPriorityLocationWins ==
  /\ app.fn = "findProduct" =>
       LET anyQuery == \E k \in 1..Len(app.in.queries) : QueryMatches(app.in.queries[k]) IN
       /\ app.in.product => app.out.from = "pageProps"
       /\ (~app.in.product /\ anyQuery) =>
            /\ app.out.from \in {"dehydratedState.product", "dehydratedState.data"}
            /\ QueryMatches(app.in.queries[app.out.query])
            /\ \A j \in 1..(app.out.query - 1) : ~QueryMatches(app.in.queries[j])
       /\ (~app.in.product /\ ~anyQuery /\ app.in.initialData) => app.out.from = "initialData"
       /\ (~app.in.product /\ ~anyQuery /\ ~app.in.initialData) => app.out.from = "none"
  /\ app.fn = "parseStockData" =>
       /\ app.in.api = "product" => app.out = "api"
       /\ app.out = "html" => (app.in.api # "product" /\ app.in.html = "page")

\* C20 witness: the product was taken from the last location, the initial-data
\* wrapper, with queries present that did not match.
C20_Witness ==
  /\ app.fn = "findProduct"
  /\ app.out.from = "initialData"
  /\ Len(app.in.queries) > 0

\* ======================================================================
\* Claims about src/index.js (second program), checked under SpecFinal
\* ======================================================================

\* C18: a cycle whose payload yields an empty variant list (the product lists
\* no colour option) aborts with an extraction error; it commits no snapshot, in
\* particular no empty one.
C18_EmptyListAborts ==
  \A c \in FCycles :
     (fCyc[c].pc = "done" /\ fCyc[c].where = "pageProps" /\ fCyc[c].listed = 0)
     => fCyc[c].outcome = "aborted"

\* C19: a payload that has no product under the primary field but has one, with
\* colour options, inside a cached-query (dehydrated state) wrapper yields a
\* record with a non-empty variant list, not an extraction error.
C19_CachedQueryFallback ==
  \A c \in FCycles :
     (fCyc[c].pc \in {"error", "done"} /\ fCyc[c].where = "dehydratedState"
        /\ fCyc[c].listed > 0)
     => fCyc[c].outcome # "aborted" /\ fCyc[c].pc # "error"

\* ======================================================================
\* Claims C21 to C30
\* ======================================================================

\* The colour ids of a snapshot of the second program, both partitions.
ColorIdsOf(snap) ==
  [k \in 1..(Len(snap.inStock) + Len(snap.outOfStock)) |->
     IF k <= Len(snap.inStock) THEN snap.inStock[k].colorId
     ELSE snap.outOfStock[k - Len(snap.inStock)].colorId]

\* C22: in every committed snapshot each variant id occurs at most once across
\* the partitions together, whatever the colour-option list of the page holds.
C22_VariantIdUniqueInSnapshot ==
  LET ids == ColorIdsOf(fPreviousStock) IN
  \A j, k \in 1..Len(ids) : j # k => ids[j] # ids[k]

\* C25: the committed snapshot changes only in the step in which a cycle
\* commits: the step that ends a cycle that parsed its page (directly, or once
\* its alert was answered).
C25_OnlyCommitChangesSnapshot ==
  [][ previousStockStatus' # previousStockStatus =>
        \/ tPc = "alert"
        \/ tPc = "fetch" /\ tHist'.detections = tHist.detections + 1 ]_vars

\* C26: when no notification endpoint is configured, no check cycle ever
\* starts (the process exits first).
C26_NoCycleWithoutEndpoint ==
  ~webhookConfigured => checkCount = 0

\* C28: a restock alert is dispatched in a cycle if and only if the cycle's
\* restock list is not empty: the step that computes the list ends awaiting the
\* post of the alert exactly when the list has an entry.
C28_AlertIffRestockListNonEmpty ==
  [][ \A c \in Cycles :
        (lastDiff'.by = c /\ lastDiff.by # c) =>
           (Len(lastDiff'.newly) > 0 <=> cyc'[c].pc = "alert") ]_vars

\* What a value of an availability property says: yes, no, or nothing.
FlagMeaning(v) ==
  IF v \in {"true", "InStock"} THEN "yes"
  ELSE IF v \in {"false", "OutOfStock"} THEN "no"
  ELSE "none"

\* The explicit flag of a colour option: the first of the synonymous keys that
\* says something.
ExplicitFlag(opt) ==
  IF FlagMeaning(opt.available) # "none" THEN FlagMeaning(opt.available)
  ELSE IF FlagMeaning(opt.inStock) # "none" THEN FlagMeaning(opt.inStock)
  ELSE FlagMeaning(opt.ATC)

\* C21: a colour option with an explicit availability flag under any of the
\* synonymous keys (a boolean or a marker) is recorded Available or Unavailable
\* accordingly; a colour option without a flag is Unknown after extraction and
\* goes to the resolver.
C21_ExplicitFlagCaptured ==
  app.fn \in {"extractAvailability", "parseOptionAvailability"} =>
    /\ ExplicitFlag(app.in) = "yes"  => app.out.bucket = "inStock"
    /\ ExplicitFlag(app.in) = "no"   => app.out.bucket = "outOfStock"
    /\ ExplicitFlag(app.in) = "none" => app.out.bucket = "unknown"

\* C24: the restock events of a cycle are listed in the order in which their
\* variants stand in the current snapshot, not in the order of the previous
\* one: the list is the current in-stock list with the non-events left out.
C24_EventsInCurrentOrder ==
  app.fn = "detectRestocks" =>
    app.out = SelectSeq(app.in.current.inStock,
                        LAMBDA color : \E k \in 1..Len(app.out) : app.out[k] = color)

\* Two events whose variants stand in the opposite order in the previous
\* snapshot.
C24_Witness ==
  /\ app.fn = "detectRestocks"
  /\ Len(app.out) = 2
  /\ app.out[1] # app.out[2]
  /\ app.in.previous.outOfStock = <<app.out[2], app.out[1]>>

\* The elements of a list.
Elements(list) == {list[k] : k \in 1..Len(list)}

\* C27: with the list of tracked colours configured, only tracked variants
\* enter a snapshot (the one being built and the committed one) and only
\* tracked variants are named by a detection or an alert.
C27_OnlyTrackedVariants ==
  /\ DOMAIN previousStockStatus \subseteq TrackedColorIds
  /\ DOMAIN tLocals.currentStockStatus \subseteq TrackedColorIds
  /\ Elements(tLocals.newlyInStock) \subseteq TrackedColorIds
  /\ Elements(tHist.newly) \subseteq TrackedColorIds

\* An untracked variant is out of stock on the page of the first check and in
\* stock on the page of the second, and the second detection names nothing.
C27_Witness ==
  /\ Len(tHist.pages) = 2
  /\ \E j \in 1..Len(tHist.pages[1]), k \in 1..Len(tHist.pages[2]) :
        /\ tHist.pages[1][j].colourId \notin TrackedColorIds
        /\ tHist.pages[1][j].stockStatus = "OutOfStock"
        /\ tHist.pages[2][k].colourId = tHist.pages[1][j].colourId
        /\ tHist.pages[2][k].stockStatus = "InStock"
  /\ tHist.newly = <<>>

\* C29: every cycle that starts eventually ends, by its commit or by its
\* reported failure, when every fetch, probe and delay comes to an end, also
\* when the notification channel never answers (a cycle cut short by the exit
\* of the process is left aside).
C29_CycleEventuallyEnds ==
  \A c \in Cycles :
     (cyc[c].pc = "fetch") ~> (cyc[c].pc = "done" \/ proc = "exited")

\* C30: once a restock event for a variant has been emitted and its cycle has
\* committed, no further restock event names that variant until a committed
\* snapshot holds it Unavailable (so none while every later cycle observes it
\* Available).
C30_NoRepeatedEventWithoutUnavailable ==
  \A v \in VariantIds : eventState[v] # "repeated"

\* The variant ids of the entries of a list.
IdsOf(list) == {list[k].variantId : k \in 1..Len(list)}

\* C31: the variants of the snapshot a cycle builds are the variants of the
\* record the same cycle extracted, each in exactly one partition; a variant
\* known only from earlier cycles is neither probed nor included.
C31_SnapshotCoversExtractedRecord ==
  app.fn = "parseThenResolve" =>
    LET snap == app.out.currentStock
        all == snap.inStock \o snap.outOfStock \o snap.unknown IN
    /\ IdsOf(all) = IdsOf(app.out.allVariants)
    /\ \A j, k \in 1..Len(all) : j # k => all[j].variantId # all[k].variantId
    /\ \A k \in 1..Len(app.out.requests) : app.out.requests[k] \in IdsOf(app.out.allVariants)

\* C32: each cycle obtains its payload by trying the structured API request
\* first and the HTML page when that fails, and aborts with a fetch error only
\* when the HTML request fails as well: every cycle has made a request, and
\* every aborted cycle a second one.
C32_ApiThenHtmlBeforeAbort ==
  gHist.requests >= gCheckCount + gHist.aborted

\* No part_001 check is running.
ApiQuiescent == gProc = "running" /\ gPending = 0 /\ gMainPc = "polling"

\* C33: a periodic inventory snapshot is sent on every 12th check and on no
\* other: once the checks started so far have ended, the checks that sent one
\* are those whose number is a multiple of 12.
C33_SnapshotEveryTwelfthCheck ==
  ApiQuiescent =>
    \A n \in 1..gCheckCount : (n % SnapshotEvery = 0) <=> (n \in gHist.snapshots)

\* C35: the error counter that the status command reports is the number of
\* cycles that aborted with an error.
C35_ErrorsCountAbortedCycles ==
  gMonitorStats.errors = gHist.aborted

\* C34: a list or snapshot command that arrives before any cycle has committed
\* a snapshot (previousStock still holds its initial value) is answered with
\* 'no data yet' and never with an inventory snapshot of the empty state.
C34_NoDataBeforeFirstCommit ==
  /\ (app.fn = "listCommand" /\ app.in = EmptyStock) => app.out.kind = "noData"
  /\ (app.fn = "handleListCommand" /\ app.in = EmptyObject) => app.out.kind = "noData"

\* The values of the properties named targetKey of the objects nested at most
\* left levels deep, in depth-first order: the object's own property first,
\* then its properties in key order.
RECURSIVE MatchesIn(_, _, _)
RECURSIVE MatchesInKeys(_, _, _, _)
MatchesIn(obj, targetKey, left) ==
  IF left < 0 \/ obj.kind # "object" THEN <<>>
  ELSE (IF HasKey(obj, targetKey) THEN <<ValueAt(obj, targetKey)>> ELSE <<>>)
         \o MatchesInKeys(obj, 1, targetKey, left)
MatchesInKeys(obj, k, targetKey, left) ==
  IF k > Len(obj.fields) THEN <<>>
  ELSE (IF obj.fields[k].key = targetKey THEN <<>>
        ELSE MatchesIn(obj.fields[k].val, targetKey, left - 1))
         \o MatchesInKeys(obj, k + 1, targetKey, left)

\* C36: findInObject never reads an object nested deeper than maxDepth below
\* the object it starts from, and it returns the value of the first matching
\* key in depth-first key order within that depth, or null when no key matches.
C36_FirstMatchWithinDepth ==
  app.fn = "findInObject" =>
    LET matches == MatchesIn(app.in.obj, "t", app.in.maxDepth) IN
    /\ app.out.deepest <= app.in.maxDepth
    /\ app.out.result = IF matches = <<>> THEN JsonNull ELSE matches[1]

====
